---- MODULE Spec2Model ----
(***************************************************************************)
(* A model of the request-dispatch engine of go-opendatabot (src/odb.go):  *)
(* client construction from options, the pre-checks, endpoint resolution,  *)
(* query encoding, the HTTP GET and the decoding of the response, together *)
(* with every catalogue method that composes them.                         *)
(*                                                                         *)
(* Strings are sequences of tokens.  A token is either one character that  *)
(* matters to URL syntax ("&", "=", "?", "#", "%", " ", "/") or a run of   *)
(* unreserved characters taken as a whole ("apiKey", "7", "K").  The       *)
(* escaped forms that net/url produces ("%26", "+", "%20", ...) are tokens *)
(* of their own, so an escaped string and an unescaped one differ.         *)
(*                                                                         *)
(* Spec is one caller on a client built from any options.  RepeatSpec lets *)
(* the caller make a call a second time with the same map object.          *)
(* ConcSpec is two callers on one client.  ResolveSpec adds the resolution *)
(* of an endpoint with any number of arguments.  TransportSpec is a client *)
(* in whose Settings the program has placed an HTTP client of its own.     *)
(***************************************************************************)
EXTENDS Integers, Sequences, FiniteSets, TLC

\* ------------------------------------------------------------------ bounds

\* Longest option sequence handed to NewOdbClient.
MaxOptions == 2

\* The most arguments handed to fmt.Sprintf when an endpoint is resolved on
\* its own.
MaxArgs == 3

\* ----------------------------------------------------------------- strings

EmptyString == << >>

\* Concatenation of a sequence of strings.
RECURSIVE Concat(_)
Concat(ss) == IF ss = << >> THEN << >> ELSE Head(ss) \o Concat(Tail(ss))

\* Index of the first occurrence of token t in s, 0 when there is none.
RECURSIVE IndexFrom(_, _, _)
IndexFrom(s, t, i) ==
    IF i > Len(s) THEN 0
    ELSE IF s[i] = t THEN i
    ELSE IndexFrom(s, t, i + 1)

IndexOf(s, t) == IndexFrom(s, t, 1)

\* All orders in which the elements of a finite set can be enumerated.
RECURSIVE Orders(_)
Orders(S) ==
    IF S = {} THEN { << >> }
    ELSE UNION { { <<x>> \o o : o \in Orders(S \ {x}) } : x \in S }

\* --------------------------------------------------------------- endpoints

\* Scheme and host shared by every endpoint template.
Origin == "https://opendatabot.com"

\* Path and version prefix shared by every endpoint template.
ApiPrefix == "/api/v2/"

\* The substitution slot of a template (the verb %s).
Slot == "%s"

governmentCompaniesEndpoint == <<Origin, ApiPrefix, "government-companies">>
dpaEndpoint == <<Origin, ApiPrefix, "dpa", "/", "%s">>
companyEndpoint == <<Origin, ApiPrefix, "company", "/", "%s">>
changesEndpoint == <<Origin, ApiPrefix, "changed", "/", "%s">>
wagedebtEndpoint == <<Origin, ApiPrefix, "wagedebt", "/", "%s">>
auditEndpoint == <<Origin, ApiPrefix, "audit">>
auditByIdEndpoint == <<Origin, ApiPrefix, "audit", "/", "%s">>
registrationsEndpoint == <<Origin, ApiPrefix, "registrations">>
registrationByIdEndpoint == <<Origin, ApiPrefix, "registrations", "/", "%s">>
inspectionsEndpoint == <<Origin, ApiPrefix, "inspections">>
inspectionByIdEndpoint == <<Origin, ApiPrefix, "inspections", "/", "%s">>
pdfEndpoint == <<Origin, ApiPrefix, "pdf", "/", "%s">>
permitsEndpoint == <<Origin, ApiPrefix, "permits">>
singletaxEndpoint == <<Origin, ApiPrefix, "singletax">>
vatEndpoint == <<Origin, ApiPrefix, "vat">>
courtEndpoint == <<Origin, ApiPrefix, "court">>
institutionsEndpoint == <<Origin, ApiPrefix, "institutions">>
courtByIdEndpoint == <<Origin, ApiPrefix, "court", "/", "%s">>
scheduleEndpoint == <<Origin, ApiPrefix, "schedule">>
accusedEndpoint == <<Origin, ApiPrefix, "accused">>
scheduleByIdEndpoint == <<Origin, ApiPrefix, "schedule", "/", "%s">>
companyCourtsEndpoint == <<Origin, ApiPrefix, "company-courts">>
companyCourtsByTypeEndpoint == <<Origin, ApiPrefix, "company-courts", "/", "%s">>
courtCasesEndpoint == <<Origin, ApiPrefix, "court-cases", "/", "%s">>
transportEndpoint == <<Origin, ApiPrefix, "transport">>
transportByIdEndpoint == <<Origin, ApiPrefix, "transport", "/", "%s">>
transportLicensesEndpoint == <<Origin, ApiPrefix, "transport-licenses">>
transportLicensesByIdEndpoint == <<Origin, ApiPrefix, "transport-licenses", "/", "%s">>
genKeyEndpoint == <<Origin, ApiPrefix, "genKey">>
statisticsEndpoint == <<Origin, ApiPrefix, "statistics">>
alimentEndpoint == <<Origin, ApiPrefix, "aliment">>
lawyersEndpoint == <<Origin, ApiPrefix, "lawyers">>
lawyersByIdEndpoint == <<Origin, ApiPrefix, "lawyers", "/", "%s">>
corruptOfficialsByIdEndpoint == <<Origin, ApiPrefix, "corrupt-officials", "/", "%s">>
corruptOfficialsEndpoint == <<Origin, ApiPrefix, "corrupt-officials">>
passportEndpoint == <<Origin, ApiPrefix, "passport">>
wantedEndpoint == <<Origin, ApiPrefix, "wanted">>
fullPenaltyByNumberEndpoint == <<Origin, ApiPrefix, "full-penalty", "/", "%s">>
fullPenaltyDocByNumberEndpoint == <<Origin, ApiPrefix, "full-penalty-doc", "/", "%s">>
fullPenaltyEndpoint == <<Origin, ApiPrefix, "full-penalty">>
performerEndpoint == <<Origin, ApiPrefix, "performer">>
penaltiesByCodeEndpoint == <<Origin, ApiPrefix, "penalties", "/", "%s">>
penaltyByNumberEndpoint == <<Origin, ApiPrefix, "penalty", "/", "%s">>
penaltiesEndpoint == <<Origin, ApiPrefix, "penalties">>
koatuuRegionsEndpoint == <<Origin, ApiPrefix, "koatuu", "/", "regions">>
koatuuRegionsByCodeEndpoint == <<Origin, ApiPrefix, "koatuu", "/", "regions", "/", "%s">>
realtyEndpoint == <<Origin, ApiPrefix, "realty">>
realtyByIdEndpoint == <<Origin, ApiPrefix, "realty", "/", "%s", "/", "%s">>
realtyResultEndpoint == <<Origin, ApiPrefix, "realty-result">>
realtyReportByNumberEndpoint == <<Origin, ApiPrefix, "realty-report", "/", "%s">>
timelineEndpoint == <<Origin, ApiPrefix, "timeline">>

\* fmt.Sprintf(format, args...) for formats whose only verb is %s: each slot
\* takes the next argument, a slot without an argument prints %!s(MISSING)
\* and arguments left over are reported after the text as %!(EXTRA ...).
\* Sprintf as it would be if a missing argument were printed as nothing and
\* arguments beyond the last slot were dropped.
RECURSIVE SprintfPadding(_, _)
SprintfPadding(format, args) ==
    IF format = << >> THEN << >>
    ELSE IF Head(format) = Slot
         THEN IF args = << >>
              THEN SprintfPadding(Tail(format), args)
              ELSE Head(args) \o SprintfPadding(Tail(format), Tail(args))
         ELSE <<Head(format)>> \o SprintfPadding(Tail(format), args)

RECURSIVE Sprintf(_, _)
Sprintf(format, args) ==
    IF format = << >>
    THEN IF args = << >> THEN << >>
         ELSE <<"%!(EXTRA string=">> \o Concat(args) \o <<")">>
    ELSE IF Head(format) = Slot
         THEN IF args = << >>
              THEN <<"%!s(MISSING)">> \o Sprintf(Tail(format), args)
              ELSE Head(args) \o Sprintf(Tail(format), Tail(args))
         ELSE <<Head(format)>> \o Sprintf(Tail(format), args)

\* ------------------------------------------------------------------ errors

\* The nil error.
Nil == [type |-> "nil", msg |-> ""]

\* errors.New(text)
ErrorsNew(text) == [type |-> "errorString", msg |-> text]

\* ----------------------------------------------------------------- net/url

\* A percent sign that does not start a valid escape is the token "%"; the
\* valid escapes are tokens of their own.  url.Parse rejects the former.
BadEscape(s) ==
    \E i \in 1..Len(s) : s[i] \in {"%", "%!s(MISSING)", "%!(EXTRA string="}

\* Characters a path or a fragment cannot carry verbatim are escaped when the
\* URL is printed.
PathEscape(s) == [i \in 1..Len(s) |-> IF s[i] = " " THEN "%20" ELSE s[i]]

\* url.QueryEscape, token by token: unreserved runs stay, a space becomes +,
\* everything else becomes its percent escape.
QueryEscapeToken(t) ==
    CASE t = " " -> "+"
      [] t = "&" -> "%26"
      [] t = "=" -> "%3D"
      [] t = "%" -> "%25"
      [] t = "?" -> "%3F"
      [] t = "#" -> "%23"
      [] t = "/" -> "%2F"
      [] t = "+" -> "%2B"
      [] OTHER   -> t

QueryEscape(s) == [i \in 1..Len(s) |-> QueryEscapeToken(s[i])]

\* url.Parse on an absolute URL: the fragment is cut at the first #, the
\* query at the first ? (a lone trailing ? only forces an empty query), the
\* first token is scheme and host, the rest is the path.
UrlParse(rawURL) ==
    LET hashAt == IndexOf(rawURL, "#")
        u      == IF hashAt = 0 THEN rawURL ELSE SubSeq(rawURL, 1, hashAt - 1)
        frag   == IF hashAt = 0 THEN << >>
                  ELSE SubSeq(rawURL, hashAt + 1, Len(rawURL))
        qAt    == IndexOf(u, "?")
        force  == qAt # 0 /\ qAt = Len(u)
        rest   == IF qAt = 0 THEN u ELSE SubSeq(u, 1, qAt - 1)
        rawq   == IF qAt = 0 THEN << >> ELSE SubSeq(u, qAt + 1, Len(u))
        path   == IF rest = << >> THEN << >> ELSE Tail(rest)
    IN  IF BadEscape(path) \/ BadEscape(frag)
        THEN [err |-> [type |-> "url.Error", msg |-> "invalid URL escape"],
              url |-> [Origin |-> "", Path |-> << >>, ForceQuery |-> FALSE,
                       RawQuery |-> << >>, Fragment |-> << >>]]
        ELSE [err |-> Nil,
              url |-> [Origin |-> IF rest = << >> THEN "" ELSE Head(rest),
                       Path |-> path, ForceQuery |-> force,
                       RawQuery |-> rawq, Fragment |-> frag]]

\* UrlString as it would be if only path, query and fragment were printed.
UrlStringRelative(u) ==
    PathEscape(u.Path)
    \o (IF u.ForceQuery \/ u.RawQuery # << >> THEN <<"?">> \o u.RawQuery ELSE << >>)
    \o (IF u.Fragment # << >> THEN <<"#">> \o PathEscape(u.Fragment) ELSE << >>)

\* (*url.URL).String
UrlString(u) ==
    (IF u.Origin = "" THEN << >> ELSE <<u.Origin>>)
    \o PathEscape(u.Path)
    \o (IF u.ForceQuery \/ u.RawQuery # << >> THEN <<"?">> \o u.RawQuery ELSE << >>)
    \o (IF u.Fragment # << >> THEN <<"#">> \o PathEscape(u.Fragment) ELSE << >>)

\* -------------------------------------------------------------------- maps

\* A map[string]string value: the nil map, or a set of <<key, value>> entries
\* with unique keys.
NilMap == [nil |-> TRUE, kv |-> {}]

MakeMap(entries) == [nil |-> FALSE, kv |-> entries]

MapKeys(m) == { e[1] : e \in m.kv }

MapGet(m, k) == (CHOOSE e \in m.kv : e[1] = k)[2]

\* m[k] = v on a non-nil map.
MapSet(m, k, v) == [m EXCEPT !.kv = { e \in @ : e[1] # k } \cup { <<k, v>> }]

\* The byte order of the parameter names that occur, as sort.Strings sees it.
SortedKeyNames ==
    << "apiKey", "birth_date", "code", "first_name", "id", "last_name",
       "name", "number", "pib", "resultId", "salt", "secret" >>

\* The keys of S in increasing order.
RECURSIVE SortKeys(_)
SortKeys(S) ==
    IF S = {} THEN << >>
    ELSE LET least == CHOOSE k \in S :
                        \A j \in S : IndexOf(SortedKeyNames, k)
                                         <= IndexOf(SortedKeyNames, j)
         IN  <<least>> \o SortKeys(S \ {least})

\* url.Values.Add: a key maps to the list of its values.
ValuesAdd(q, key, value) ==
    IF key \in DOMAIN q
    THEN [q EXCEPT ![key] = Append(@, value)]
    ELSE [k \in DOMAIN q \cup {key} |-> IF k = key THEN <<value>> ELSE q[k]]

\* One key of url.Values.Encode: key=value for each of its values.
RECURSIVE EncodeKey(_, _)
EncodeKey(key, values) ==
    IF values = << >> THEN << >>
    ELSE << <<key>> \o <<"=">> \o QueryEscape(Head(values)) >>
         \o EncodeKey(key, Tail(values))

\* The key=value pieces of all keys, in the order of keys.
RECURSIVE EncodePieces(_, _)
EncodePieces(q, keys) ==
    IF keys = << >> THEN << >>
    ELSE EncodeKey(Head(keys), q[Head(keys)]) \o EncodePieces(q, Tail(keys))

\* strings.Join(pieces, "&")
RECURSIVE JoinAmp(_)
JoinAmp(pieces) ==
    IF pieces = << >> THEN << >>
    ELSE IF Len(pieces) = 1 THEN Head(pieces)
    ELSE Head(pieces) \o <<"&">> \o JoinAmp(Tail(pieces))

\* url.Values.Encode: sorted by key.
ValuesEncode(q) == JoinAmp(EncodePieces(q, SortKeys(DOMAIN q)))

\* AddAll as it would be if the loop were left after its first round.
AddAllFirstOnly(q, params, order) ==
    IF order = << >> THEN q
    ELSE ValuesAdd(q, Head(order), MapGet(params, Head(order)))

\* AddAll as it would be if entries with an empty value were skipped.
RECURSIVE AddAllNonEmpty(_, _, _)
AddAllNonEmpty(q, params, order) ==
    IF order = << >> THEN q
    ELSE IF MapGet(params, Head(order)) = EmptyString
    THEN AddAllNonEmpty(q, params, Tail(order))
    ELSE AddAllNonEmpty(ValuesAdd(q, Head(order), MapGet(params, Head(order))),
                        params, Tail(order))

\* The loop of buildQueryParams: the entries of params are added in the order
\* in which the range statement happens to visit them.
RECURSIVE AddAll(_, _, _)
AddAll(q, params, order) ==
    IF order = << >> THEN q
    ELSE AddAll(ValuesAdd(q, Head(order), MapGet(params, Head(order))),
                params, Tail(order))

\* buildQueryParams as it would be if the query were written in the order in
\* which the entries were visited, not sorted by key.
buildQueryParamsUnsorted(endpoint, params, order) ==
    LET parsed == UrlParse(endpoint)
        query  == AddAll(<< >>, params, order)
        base   == [parsed.url EXCEPT
                     !.RawQuery = JoinAmp(EncodePieces(query, order))]
    IN  IF parsed.err # Nil
        THEN [uri |-> << >>, err |-> parsed.err]
        ELSE [uri |-> UrlString(base), err |-> Nil]

buildQueryParams(endpoint, params, order) ==
    LET parsed == UrlParse(endpoint)
        query  == AddAll(<< >>, params, order)
        base   == [parsed.url EXCEPT !.RawQuery = ValuesEncode(query)]
    IN  IF parsed.err # Nil
        THEN [uri |-> << >>, err |-> parsed.err]
        ELSE [uri |-> UrlString(base), err |-> Nil]

\* ---------------------------------------------------------------- settings

\* The zero value of Settings.
ZeroSettings == [ApiKey |-> EmptyString, Client |-> "nil"]

\* WithApiKey(apiKey)
WithApiKey(apiKey) == [option |-> "withApiKey", value |-> apiKey]

\* Apply as it would be if an option filled the credential only while it is
\* still unset.
ApplyKeepFirst(option, o) ==
    IF o.ApiKey = EmptyString THEN [o EXCEPT !.ApiKey = option.value] ELSE o

\* withApiKey.Apply
Apply(option, o) == [o EXCEPT !.ApiKey = option.value]

RECURSIVE ApplyEach(_, _)
ApplyEach(options, setting) ==
    IF options = << >> THEN setting
    ELSE ApplyEach(Tail(options), Apply(Head(options), setting))

\* ApplySettings as it would be if it validated the credential when the
\* client is built.
ApplySettingsValidating(options) ==
    LET setting == ApplyEach(options, ZeroSettings)
    IN  [settings |-> setting,
         err |-> IF setting.ApiKey = EmptyString
                 THEN ErrorsNew("ApiKey is not specified") ELSE Nil]

ApplySettings(options) ==
    [settings |-> ApplyEach(options, ZeroSettings), err |-> Nil]

\* The nil *OdbClient.
NilClient == [nil |-> TRUE, Settings |-> ZeroSettings]

NewOdbClient(options) ==
    LET applied == ApplySettings(options)
    IN  IF applied.err # Nil
        THEN [client |-> NilClient, err |-> applied.err]
        ELSE [client |-> [nil |-> FALSE, Settings |-> applied.settings],
              err |-> Nil]

\* ---------------------------------------------------------------- pre-checks

\* checkApiKey as it would be if it let an empty credential pass.
checkApiKeyLax(odb) == Nil

checkApiKey(odb) ==
    IF odb.Settings.ApiKey = EmptyString
    THEN ErrorsNew("ApiKey is not specified")
    ELSE Nil

\* checkNotEmpty as it would be if it let an empty identifier pass.
checkNotEmptyLax(id) == Nil

checkNotEmpty(id) ==
    IF id = EmptyString THEN ErrorsNew("Id is not specified") ELSE Nil

\* ------------------------------------------------------- transport and JSON

\* http.StatusOK
StatusOK == 200

\* http.StatusText: the reason phrase of a registered status code, the empty
\* text for a code without one.
StatusText(code) ==
    CASE code = 200 -> "OK"
      [] code = 201 -> "Created"
      [] code = 204 -> "No Content"
      [] code = 404 -> "Not Found"
      [] code = 500 -> "Internal Server Error"
      [] OTHER      -> ""

\* The status codes the remote side answers with: 200, two registered codes
\* that are not 200 (one of them 2xx) and two codes without a reason phrase.
Statuses == {200, 201, 404, 299, 599}

\* A member of a JSON document: its JSON type, its text (the codes of the
\* elements, for the items array) and its number.
Member(t, s, n) == [t |-> t, s |-> s, n |-> n]

Absent == Member("absent", << >>, 0)

\* The JSON type each field of GovernmentCompany decodes from, by the path of
\* its json tags.
GovernmentCompany ==
    ("status" :> "string") @@ ("data.count" :> "number")
        @@ ("data.items" :> "array")

\* The members a document can have: those of GovernmentCompany and one that
\* no field is tagged with.
JsonPaths == DOMAIN GovernmentCompany \cup {"data.region"}

Document(id, status, count, items, region) ==
    [id |-> id, wellFormed |-> TRUE, null |-> FALSE,
     at |-> ("status" :> status) @@ ("data.count" :> count)
                @@ ("data.items" :> items) @@ ("data.region" :> region)]

\* Response bodies: the document of the method's own example, the same with
\* a member the type does not declare, one that lacks two declared members,
\* one whose count is a string, the literal null, and text that is not JSON.
BodyOk ==
    Document("ok", Member("string", <<"ok">>, 0), Member("number", << >>, 1),
             Member("array", <<"31325005">>, 0), Absent)

BodyUnknown ==
    Document("unknown", Member("string", <<"ok">>, 0),
             Member("number", << >>, 1), Member("array", <<"31325005">>, 0),
             Member("string", <<"Kyiv">>, 0))

BodyMissing ==
    Document("missing", Absent, Member("number", << >>, 1), Absent, Absent)

BodyMismatch ==
    Document("mismatch", Member("string", <<"ok">>, 0),
             Member("string", <<"1">>, 0), Member("array", <<"31325005">>, 0),
             Absent)

BodyNull == [Document("null", Absent, Absent, Absent, Absent)
                EXCEPT !.null = TRUE]

BodyMalformed == [Document("malformed", Absent, Absent, Absent, Absent)
                     EXCEPT !.wellFormed = FALSE]

NoBody == [Document("none", Absent, Absent, Absent, Absent)
              EXCEPT !.wellFormed = FALSE]

Bodies == {BodyOk, BodyUnknown, BodyMissing, BodyMismatch, BodyNull,
           BodyMalformed}

\* What one call of http.Get can come back with: a transport error, or a
\* response with a status and a body whose reading succeeds or fails.  A
\* 2xx response that is not a 200 carries the document, any other response
\* an error page.
GetOutcomes ==
    { [err |-> [type |-> "url.Error", msg |-> "Get: transport failure"],
       StatusCode |-> 0, Body |-> NoBody, readFails |-> FALSE] }
    \cup { [err |-> Nil, StatusCode |-> 200, Body |-> b, readFails |-> FALSE] :
           b \in Bodies }
    \cup { [err |-> Nil, StatusCode |-> s,
             Body |-> IF s < 300 THEN BodyOk ELSE BodyMalformed,
             readFails |-> FALSE] :
           s \in Statuses \ {200} }
    \cup { [err |-> Nil, StatusCode |-> 200, Body |-> BodyOk, readFails |-> TRUE] }

\* The nil result (a nil pointer or a nil slice).
NilValue == [nil |-> TRUE, Status |-> EmptyString, Count |-> 0, Items |-> << >>]

\* json.Unmarshal as it would be with a decoder that rejects a member no
\* field is tagged with and requires a member for every field.
UnmarshalStrict(body, v) ==
    IF ~body.wellFormed
    THEN [err |-> [type |-> "json.SyntaxError", msg |-> "invalid character"],
          v |-> v]
    ELSE IF body.null THEN [err |-> Nil, v |-> NilValue]
    ELSE LET present == { p \in JsonPaths : body.at[p] # Absent }
             tagged  == present \cap DOMAIN GovernmentCompany
             wrong   == { p \in tagged : body.at[p].t # GovernmentCompany[p] }
             stored(p) == IF p \in tagged \ wrong THEN body.at[p] ELSE Absent
         IN  [err |-> IF present # DOMAIN GovernmentCompany
                      THEN [type |-> "json.Error", msg |-> "unknown field"]
                      ELSE IF wrong = {} THEN Nil
                      ELSE [type |-> "json.UnmarshalTypeError",
                            msg |-> "cannot unmarshal"],
              v |-> [nil |-> FALSE,
                     Status |-> stored("status").s,
                     Count |-> stored("data.count").n,
                     Items |-> [i \in 1 .. Len(stored("data.items").s) |->
                                  [Code |-> <<stored("data.items").s[i]>>]]]]

\* json.Unmarshal as it would be if it stored top-level members only.
UnmarshalShallow(body, v) ==
    IF ~body.wellFormed
    THEN [err |-> [type |-> "json.SyntaxError", msg |-> "invalid character"],
          v |-> v]
    ELSE IF body.null THEN [err |-> Nil, v |-> NilValue]
    ELSE [err |-> Nil,
          v |-> [nil |-> FALSE, Status |-> body.at["status"].s, Count |-> 0,
                 Items |-> << >>]]

\* json.Unmarshal(body, &v) with v holding the address of the result
\* variable.  Text that is not JSON is rejected before anything is stored.
\* null stores nil.  Otherwise a new value is allocated; each member of the
\* document whose path a field is tagged with is stored in that field, a
\* member of the wrong JSON type is skipped and reported when the walk is
\* over, a member no field is tagged with is skipped, and a field without a
\* member keeps its zero value.
Unmarshal(body, v) ==
    IF ~body.wellFormed
    THEN [err |-> [type |-> "json.SyntaxError", msg |-> "invalid character"],
          v |-> v]
    ELSE IF body.null THEN [err |-> Nil, v |-> NilValue]
    ELSE LET present == { p \in JsonPaths : body.at[p] # Absent }
             tagged  == present \cap DOMAIN GovernmentCompany
             wrong   == { p \in tagged : body.at[p].t # GovernmentCompany[p] }
             stored(p) == IF p \in tagged \ wrong THEN body.at[p] ELSE Absent
         IN  [err |-> IF wrong = {} THEN Nil
                      ELSE [type |-> "json.UnmarshalTypeError",
                            msg |-> "cannot unmarshal"],
              v |-> [nil |-> FALSE,
                     Status |-> stored("status").s,
                     Count |-> stored("data.count").n,
                     Items |-> [i \in 1 .. Len(stored("data.items").s) |->
                                  [Code |-> <<stored("data.items").s[i]>>]]]]

\* No response was obtained.
NoResp == [present |-> FALSE, StatusCode |-> 0, Body |-> NoBody,
           read |-> FALSE, closed |-> FALSE]

\* ---------------------------------------------------------------------- Do

\* Do, first half: the write of the credential into params.  Writing to a
\* nil map panics.
DoPanics(odb, params) == odb.Settings.ApiKey # EmptyString /\ params.nil

\* DoParams as it would be if an apiKey the caller supplied were kept.
DoParamsKeepCallers(odb, params) ==
    IF odb.Settings.ApiKey # EmptyString /\ "apiKey" \notin MapKeys(params)
    THEN MapSet(params, "apiKey", odb.Settings.ApiKey)
    ELSE params

\* DoParams as it would be if the credential were added only to a map that
\* already has parameters.
DoParamsOnlyWithParams(odb, params) ==
    IF odb.Settings.ApiKey # EmptyString /\ params.kv # {}
    THEN MapSet(params, "apiKey", odb.Settings.ApiKey)
    ELSE params

\* DoParams as it would be if the credential were appended to the apiKey the
\* map already has.
DoParamsAppending(odb, params) ==
    IF odb.Settings.ApiKey # EmptyString
    THEN MapSet(params, "apiKey",
                (IF "apiKey" \in MapKeys(params) THEN MapGet(params, "apiKey")
                 ELSE EmptyString) \o odb.Settings.ApiKey)
    ELSE params

DoParams(odb, params) ==
    IF odb.Settings.ApiKey # EmptyString
    THEN MapSet(params, "apiKey", odb.Settings.ApiKey)
    ELSE params

\* DoFinish as it would be if every 2xx status counted as success.
DoFinishAny2xx(got, v) ==
    IF got.err # Nil
    THEN [err |-> got.err, v |-> v, resp |-> NoResp]
    ELSE LET resp == [present |-> TRUE, StatusCode |-> got.StatusCode,
                      Body |-> got.Body, read |-> FALSE, closed |-> FALSE]
         IN  IF got.StatusCode < 200 \/ got.StatusCode > 299
             THEN [err |-> ErrorsNew(StatusText(got.StatusCode)), v |-> v,
                   resp |-> resp]
             ELSE IF got.readFails
             THEN [err |-> [type |-> "io.Error", msg |-> "unexpected EOF"],
                   v |-> v,
                   resp |-> [resp EXCEPT !.closed = TRUE]]
             ELSE LET decoded == Unmarshal(got.Body, v)
                  IN  [err |-> decoded.err, v |-> decoded.v,
                       resp |-> [resp EXCEPT !.read = TRUE, !.closed = TRUE]]

\* DoFinish as it would be if a failed read of the body were ignored and the
\* result variable left as it was.
DoFinishIgnoringRead(got, v) ==
    IF got.err # Nil
    THEN [err |-> got.err, v |-> v, resp |-> NoResp]
    ELSE LET resp == [present |-> TRUE, StatusCode |-> got.StatusCode,
                      Body |-> got.Body, read |-> FALSE, closed |-> FALSE]
         IN  IF got.StatusCode # StatusOK
             THEN [err |-> ErrorsNew(StatusText(got.StatusCode)), v |-> v,
                   resp |-> resp]
             ELSE IF got.readFails
             THEN [err |-> Nil, v |-> v,
                   resp |-> [resp EXCEPT !.closed = TRUE]]
             ELSE LET decoded == Unmarshal(got.Body, v)
                  IN  [err |-> decoded.err, v |-> decoded.v,
                       resp |-> [resp EXCEPT !.read = TRUE, !.closed = TRUE]]

\* Do, second half: from the return of http.Get to the return of Do.  v is
\* the caller's result variable.
DoFinish(got, v) ==
    IF got.err # Nil
    THEN [err |-> got.err, v |-> v, resp |-> NoResp]
    ELSE LET resp == [present |-> TRUE, StatusCode |-> got.StatusCode,
                      Body |-> got.Body, read |-> FALSE, closed |-> FALSE]
         IN  IF got.StatusCode # StatusOK
             THEN [err |-> ErrorsNew(StatusText(got.StatusCode)), v |-> v,
                   resp |-> resp]
             ELSE IF got.readFails
             THEN [err |-> [type |-> "io.Error", msg |-> "unexpected EOF"],
                   v |-> v,
                   resp |-> [resp EXCEPT !.closed = TRUE]]
             ELSE LET decoded == Unmarshal(got.Body, v)
                  IN  [err |-> decoded.err, v |-> decoded.v,
                       resp |-> [resp EXCEPT !.read = TRUE, !.closed = TRUE]]

\* MethodReturn as it would be if the result variable were returned whatever
\* the error.
MethodReturnAsDecoded(err, response) == [response |-> response, err |-> err]

\* The tail of every catalogue method: a nil result with the error, or the
\* result with a nil error.
MethodReturn(err, response) ==
    IF err # Nil THEN [response |-> NilValue, err |-> err]
    ELSE [response |-> response, err |-> Nil]

\* ------------------------------------------------------------------- state

\* The callers (goroutines) that may use the client.
Callers == {"c1", "c2"}

\* Credentials an option can carry.
ApiKeys == { EmptyString, <<"K">> }

\* A value that would add a parameter of its own to a query if it were
\* written into it verbatim.
Tricky == <<"7", "&", "apiKey", "=", "J">>

\* An identifier with dot segments, a query and a fragment of its own.
Hostile == <<"..", "/", "..", "/", "x", "?", "y", "#", "z">>

\* Values a caller passes for an identifier that goes into the path: empty,
\* blank, plain, one with a percent sign that starts no escape, and the
\* hostile one.
IdValues == { EmptyString, <<" ">>, <<"7">>, <<"%">>, Hostile }

\* Values a caller passes for an argument that goes into the query.
ArgValues == { EmptyString, <<"31325005">>, Tricky }

\* The params argument a caller passes: nil, an empty map, a map that brings
\* an apiKey of its own and an empty value, a map with a value to escape.
ParamArgs ==
    { NilMap,
      MakeMap({}),
      MakeMap({ <<"apiKey", <<"J">> >>, <<"name", EmptyString>> }),
      MakeMap({ <<"name", Tricky>> }) }

RECURSIVE SeqsUpTo(_, _)
SeqsUpTo(S, n) ==
    IF n = 0 THEN { << >> }
    ELSE SeqsUpTo(S, n - 1)
         \cup { Append(q, x) : q \in { r \in SeqsUpTo(S, n - 1) : Len(r) = n - 1 },
                               x \in S }

\* The option sequences a program can pass to NewOdbClient.
OptionSeqs == SeqsUpTo({ WithApiKey(k) : k \in ApiKeys }, MaxOptions)

NoRequest == [issued |-> FALSE, method |-> "", url |-> << >>, client |-> ""]

\* No params argument: the method takes none.
NoParams == [obj |-> "none", map |-> NilMap]

\* The map a method hands to Do: one it builds itself, or the caller's map
\* object with the writes the method makes to it first.
Literal(entries) ==
    [caller |-> FALSE, obj |-> "none", map |-> MakeMap(entries), writes |-> << >>]

Passed(params, writes) ==
    [caller |-> TRUE, obj |-> params.obj, map |-> NilMap, writes |-> writes]

NoCall == [method |-> "", kind |-> "", args |-> << >>, hasParams |-> FALSE,
           params |-> NilMap, endpoint |-> << >>, m |-> Literal({})]

\* Nothing is kept of an earlier call.
NoFirst == [kept |-> FALSE, request |-> NoRequest, resp |-> NoResp,
            ret |-> [response |-> NilValue, err |-> Nil]]

\* No endpoint has been resolved on its own.
NoResolve == [done |-> FALSE, format |-> << >>, args |-> << >>, out |-> << >>,
              built |-> [uri |-> << >>, err |-> Nil]]

NoReturn == [response |-> NilValue, err |-> Nil]

VARIABLES
    constructed,  \* NewOdbClient has returned
    options,      \* the options it was called with
    odb,          \* the client it returned
    newErr,       \* the error it returned
    active,       \* the callers that use the client
    pc,           \* where each caller is: idle, checked, inGet, returned,
                  \* again, panicked
    call,         \* the method a caller called last and its arguments
    pmap,         \* the map object each caller owns, as it is now
    request,      \* the HTTP request the call handed to http.Get
    httpCalls,    \* how many times the call has invoked http.Get
    resp,         \* the response http.Get returned to the call
    target,       \* the method's result variable, which Do decodes into
    ret,          \* what the method returned
    first,        \* what a caller keeps of a call it is about to make again
    resolve       \* an endpoint resolved on its own: the template, the
                  \* arguments, what fmt.Sprintf made of them and what
                  \* buildQueryParams made of that

vars == << constructed, options, odb, newErr, active, pc, call, pmap, request,
           httpCalls, resp, target, ret, first, resolve >>

clientVars == << constructed, options, odb, newErr, active >>

\* No caller has called anything yet.
CallersIdle ==
    /\ pc = [c \in Callers |-> "idle"]
    /\ call = [c \in Callers |-> NoCall]
    /\ pmap = [c \in Callers |-> NilMap]
    /\ request = [c \in Callers |-> NoRequest]
    /\ httpCalls = [c \in Callers |-> 0]
    /\ resp = [c \in Callers |-> NoResp]
    /\ target = [c \in Callers |-> NilValue]
    /\ ret = [c \in Callers |-> NoReturn]
    /\ first = [c \in Callers |-> NoFirst]
    /\ resolve = NoResolve

Init ==
    /\ constructed = FALSE
    /\ options = << >>
    /\ odb = NilClient
    /\ newErr = Nil
    /\ active = {"c1"}
    /\ CallersIdle

\* The state after NewOdbClient(WithApiKey(k)), with the callers in users.
Constructed(users) ==
    /\ constructed = TRUE
    /\ \E k \in ApiKeys :
        /\ options = <<WithApiKey(k)>>
        /\ odb = NewOdbClient(<<WithApiKey(k)>>).client
        /\ newErr = NewOdbClient(<<WithApiKey(k)>>).err
    /\ active = users
    /\ CallersIdle

\* The program builds its client.
Construct ==
    /\ ~constructed
    /\ \E opts \in OptionSeqs :
        LET made == NewOdbClient(opts)
        IN  /\ options' = opts
            /\ odb' = made.client
            /\ newErr' = made.err
    /\ constructed' = TRUE
    /\ UNCHANGED << active, pc, call, pmap, request, httpCalls, resp, target,
                    ret, first, resolve >>

\* FirstError as it would be if the pre-checks were made in the opposite
\* order, the last one first.
RECURSIVE FirstErrorReversed(_)
FirstErrorReversed(checks) ==
    IF checks = << >> THEN Nil
    ELSE IF checks[Len(checks)] # Nil THEN checks[Len(checks)]
    ELSE FirstErrorReversed(SubSeq(checks, 1, Len(checks) - 1))

\* The first error of the pre-checks, in the order in which they are made.
RECURSIVE FirstError(_)
FirstError(checks) ==
    IF checks = << >> THEN Nil
    ELSE IF Head(checks) # Nil THEN Head(checks)
    ELSE FirstError(Tail(checks))

\* params[k] = v for each write, in order, on a non-nil map.
RECURSIVE WriteAll(_, _)
WriteAll(m, writes) ==
    IF writes = << >> THEN m
    ELSE WriteAll(MapSet(m, Head(writes)[1], Head(writes)[2]), Tail(writes))

\* http.Get(url): the request goes out through the default client.
HttpGet(url) ==
    [issued |-> TRUE, method |-> "GET", url |-> url, client |-> "http.DefaultClient"]

\* The params arguments a caller can pass: a map of its own, the map of its
\* previous call when it makes that call again, or the map object another
\* caller is using.
ParamsOf(c) ==
    IF pc[c] = "again"
    THEN { [obj |-> o, map |-> pmap[o]] :
           o \in { d \in Callers : call[c].m.caller /\ d = call[c].m.obj } }
    ELSE { [obj |-> c, map |-> p] : p \in ParamArgs }
         \cup { [obj |-> d, map |-> pmap[d]] :
                d \in { e \in active \ {c} :
                          /\ pc[e] \in {"checked", "inGet", "returned"}
                          /\ call[e].m.caller
                          /\ call[e].m.obj = e
                          /\ ~pmap[e].nil } }

\* The caller has a client and no call under way.
Ready(c) ==
    /\ constructed /\ ~odb.nil
    /\ c \in active
    /\ pc[c] \in {"idle", "again"}

\* A caller's call of a catalogue method, up to the end of the method's
\* pre-checks: the method returns the first error, or goes on.
Invoke(c, name, kind, args, params, checks, endpoint, m) ==
    /\ Ready(c)
    /\ pc[c] = "again" => (name = call[c].method /\ args = call[c].args)
    /\ call' = [call EXCEPT ![c] =
                  [method |-> name, kind |-> kind, args |-> args,
                   hasParams |-> m.caller, params |-> params.map,
                   endpoint |-> endpoint, m |-> m]]
    /\ pmap' = IF m.caller THEN [pmap EXCEPT ![m.obj] = params.map] ELSE pmap
    /\ request' = [request EXCEPT ![c] = NoRequest]
    /\ httpCalls' = [httpCalls EXCEPT ![c] = 0]
    /\ resp' = [resp EXCEPT ![c] = NoResp]
    /\ target' = [target EXCEPT ![c] = NilValue]
    /\ LET failed == FirstError(checks)
       IN  IF failed # Nil
           THEN /\ pc' = [pc EXCEPT ![c] = "returned"]
                /\ ret' = [ret EXCEPT ![c] = MethodReturn(failed, NilValue)]
           ELSE /\ pc' = [pc EXCEPT ![c] = "checked"]
                /\ ret' = [ret EXCEPT ![c] = NoReturn]
    /\ UNCHANGED << clientVars, first, resolve >>

\* The map a call that passed its pre-checks works on, as it is now.
Held(c) == IF call[c].m.caller THEN pmap[call[c].m.obj] ELSE call[c].m.map

\* From the end of the pre-checks to http.Get: the method's own writes to
\* params, Do's write of the credential, and buildQueryParams.  The call
\* panics on a write to a nil map, returns the error of buildQueryParams, or
\* blocks in http.Get.
DoStart(c) ==
    /\ c \in active
    /\ pc[c] = "checked"
    /\ LET m      == call[c].m
           panics == (m.writes # << >> /\ Held(c).nil) \/ DoPanics(odb, Held(c))
           sent   == IF panics THEN Held(c)
                     ELSE DoParams(odb, WriteAll(Held(c), m.writes))
       IN  IF panics
           THEN /\ pc' = [pc EXCEPT ![c] = "panicked"]
                /\ UNCHANGED << pmap, request, httpCalls, ret >>
           ELSE \E order \in Orders(MapKeys(sent)) :
                  LET built == buildQueryParams(call[c].endpoint, sent, order)
                  IN  /\ pmap' = IF m.caller
                                 THEN [pmap EXCEPT ![m.obj] = sent]
                                 ELSE pmap
                      /\ IF built.err # Nil
                         THEN /\ pc' = [pc EXCEPT ![c] = "returned"]
                              /\ ret' = [ret EXCEPT ![c] =
                                           MethodReturn(built.err, NilValue)]
                              /\ UNCHANGED << request, httpCalls >>
                         ELSE /\ pc' = [pc EXCEPT ![c] = "inGet"]
                              /\ request' = [request EXCEPT ![c] = HttpGet(built.uri)]
                              /\ httpCalls' = [httpCalls EXCEPT ![c] = 1]
                              /\ UNCHANGED ret
    /\ UNCHANGED << clientVars, call, resp, target, first, resolve >>

\* ------------------------------------------------------- catalogue methods

GetGovernmentCompany(c) ==
    /\ Ready(c)
    /\ \E code \in ArgValues :
        Invoke(c, "GetGovernmentCompany", "pointer", <<code>>, NoParams,
               <<checkNotEmpty(code), checkApiKey(odb)>>,
               governmentCompaniesEndpoint,
               Literal({<<"code", code>>}))

GetDpa(c) ==
    /\ Ready(c)
    /\ \E code \in IdValues :
        Invoke(c, "GetDpa", "pointer", <<code>>, NoParams,
               <<checkNotEmpty(code), checkApiKey(odb)>>,
               Sprintf(dpaEndpoint, <<code>>),
               Literal({}))

GetCompany(c) ==
    /\ Ready(c)
    /\ \E code \in IdValues :
        Invoke(c, "GetCompany", "slice", <<code>>, NoParams,
               <<checkNotEmpty(code), checkApiKey(odb)>>,
               Sprintf(companyEndpoint, <<code>>),
               Literal({}))

GetChanges(c) ==
    /\ Ready(c)
    /\ \E code \in IdValues, params \in ParamsOf(c) :
        Invoke(c, "GetChanges", "slice", <<code>>, params,
               <<checkNotEmpty(code), checkApiKey(odb)>>,
               Sprintf(changesEndpoint, <<code>>),
               Passed(params, <<>>))

GetWagedebt(c) ==
    /\ Ready(c)
    /\ \E code \in IdValues :
        Invoke(c, "GetWagedebt", "pointer", <<code>>, NoParams,
               <<checkNotEmpty(code), checkApiKey(odb)>>,
               Sprintf(wagedebtEndpoint, <<code>>),
               Literal({}))

GetAudit(c) ==
    /\ Ready(c)
    /\ \E params \in ParamsOf(c) :
        Invoke(c, "GetAudit", "slice", <<>>, params,
               <<checkApiKey(odb)>>,
               auditEndpoint,
               Passed(params, <<>>))

GetAuditById(c) ==
    /\ Ready(c)
    /\ \E id \in IdValues :
        Invoke(c, "GetAuditById", "slice", <<id>>, NoParams,
               <<checkNotEmpty(id), checkApiKey(odb)>>,
               Sprintf(auditByIdEndpoint, <<id>>),
               Literal({}))

GetRegistrations(c) ==
    /\ Ready(c)
    /\ \E params \in ParamsOf(c) :
        Invoke(c, "GetRegistrations", "pointer", <<>>, params,
               <<checkApiKey(odb)>>,
               registrationsEndpoint,
               Passed(params, <<>>))

GetRegistrationById(c) ==
    /\ Ready(c)
    /\ \E id \in IdValues :
        Invoke(c, "GetRegistrationById", "pointer", <<id>>, NoParams,
               <<checkNotEmpty(id), checkApiKey(odb)>>,
               Sprintf(registrationByIdEndpoint, <<id>>),
               Literal({}))

GetInspections(c) ==
    /\ Ready(c)
    /\ \E code \in ArgValues :
        Invoke(c, "GetInspections", "pointer", <<code>>, NoParams,
               <<checkNotEmpty(code), checkApiKey(odb)>>,
               inspectionsEndpoint,
               Literal({<<"code", code>>}))

GetInspectionById(c) ==
    /\ Ready(c)
    /\ \E id \in IdValues :
        Invoke(c, "GetInspectionById", "pointer", <<id>>, NoParams,
               <<checkNotEmpty(id), checkApiKey(odb)>>,
               Sprintf(inspectionByIdEndpoint, <<id>>),
               Literal({}))

GetPdf(c) ==
    /\ Ready(c)
    /\ \E code \in IdValues :
        Invoke(c, "GetPdf", "pointer", <<code>>, NoParams,
               <<checkNotEmpty(code), checkApiKey(odb)>>,
               Sprintf(pdfEndpoint, <<code>>),
               Literal({}))

GetPermits(c) ==
    /\ Ready(c)
    /\ \E params \in ParamsOf(c) :
        Invoke(c, "GetPermits", "pointer", <<>>, params,
               <<checkApiKey(odb)>>,
               permitsEndpoint,
               Passed(params, <<>>))

GetSingletax(c) ==
    /\ Ready(c)
    /\ \E params \in ParamsOf(c) :
        Invoke(c, "GetSingletax", "pointer", <<>>, params,
               <<checkApiKey(odb)>>,
               singletaxEndpoint,
               Passed(params, <<>>))

GetVat(c) ==
    /\ Ready(c)
    /\ \E params \in ParamsOf(c) :
        Invoke(c, "GetVat", "pointer", <<>>, params,
               <<checkApiKey(odb)>>,
               vatEndpoint,
               Passed(params, <<>>))

GetCourt(c) ==
    /\ Ready(c)
    /\ \E params \in ParamsOf(c) :
        Invoke(c, "GetCourt", "pointer", <<>>, params,
               <<checkApiKey(odb)>>,
               courtEndpoint,
               Passed(params, <<>>))

GetInstitutions(c) ==
    /\ Ready(c)
    /\ \E params \in ParamsOf(c) :
        Invoke(c, "GetInstitutions", "pointer", <<>>, params,
               <<>>,
               institutionsEndpoint,
               Passed(params, <<>>))

GetCourtById(c) ==
    /\ Ready(c)
    /\ \E id \in IdValues :
        Invoke(c, "GetCourtById", "pointer", <<id>>, NoParams,
               <<checkApiKey(odb)>>,
               Sprintf(courtByIdEndpoint, <<id>>),
               Literal({}))

GetSchedule(c) ==
    /\ Ready(c)
    /\ \E params \in ParamsOf(c) :
        Invoke(c, "GetSchedule", "pointer", <<>>, params,
               <<checkApiKey(odb)>>,
               scheduleEndpoint,
               Passed(params, <<>>))

GetAccused(c) ==
    /\ Ready(c)
    /\ \E params \in ParamsOf(c) :
        Invoke(c, "GetAccused", "pointer", <<>>, params,
               <<checkApiKey(odb)>>,
               accusedEndpoint,
               Passed(params, <<>>))

GetScheduleById(c) ==
    /\ Ready(c)
    /\ \E id \in IdValues :
        Invoke(c, "GetScheduleById", "pointer", <<id>>, NoParams,
               <<checkApiKey(odb)>>,
               Sprintf(scheduleByIdEndpoint, <<id>>),
               Literal({}))

GetCompanyCourts(c) ==
    /\ Ready(c)
    /\ \E code \in ArgValues :
        Invoke(c, "GetCompanyCourts", "pointer", <<code>>, NoParams,
               <<checkApiKey(odb)>>,
               companyCourtsEndpoint,
               Literal({<<"code", code>>}))

GetCompanyCourtsByType(c) ==
    /\ Ready(c)
    /\ \E courtsType \in IdValues, code \in ArgValues, params \in ParamsOf(c) :
        Invoke(c, "GetCompanyCourtsByType", "pointer", <<courtsType, code>>, params,
               <<checkApiKey(odb)>>,
               Sprintf(companyCourtsByTypeEndpoint, <<courtsType>>),
               Passed(params, << <<"code", code>> >>))

GetCourtCases(c) ==
    /\ Ready(c)
    /\ \E number \in IdValues, params \in ParamsOf(c) :
        Invoke(c, "GetCourtCases", "pointer", <<number>>, params,
               <<checkApiKey(odb)>>,
               Sprintf(courtCasesEndpoint, <<number>>),
               Passed(params, <<>>))

GetTransports(c) ==
    /\ Ready(c)
    /\ \E params \in ParamsOf(c) :
        Invoke(c, "GetTransports", "pointer", <<>>, params,
               <<checkApiKey(odb)>>,
               transportEndpoint,
               Passed(params, <<>>))

GetTransportById(c) ==
    /\ Ready(c)
    /\ \E id \in IdValues :
        Invoke(c, "GetTransportById", "pointer", <<id>>, NoParams,
               <<checkApiKey(odb)>>,
               Sprintf(transportByIdEndpoint, <<id>>),
               Literal({}))

GetTransportLicenses(c) ==
    /\ Ready(c)
    /\ \E params \in ParamsOf(c) :
        Invoke(c, "GetTransportLicenses", "pointer", <<>>, params,
               <<checkApiKey(odb)>>,
               transportLicensesEndpoint,
               Passed(params, <<>>))

GetTransportLicensesById(c) ==
    /\ Ready(c)
    /\ \E id \in IdValues :
        Invoke(c, "GetTransportLicensesById", "pointer", <<id>>, NoParams,
               <<checkApiKey(odb)>>,
               Sprintf(transportLicensesByIdEndpoint, <<id>>),
               Literal({}))

GetGenKey(c) ==
    /\ Ready(c)
    /\ \E salt \in ArgValues, id \in ArgValues :
        Invoke(c, "GetGenKey", "pointer", <<salt, id>>, NoParams,
               <<checkApiKey(odb)>>,
               genKeyEndpoint,
               Literal({<<"salt", salt>>, <<"id", id>>}))

GetStatistics(c) ==
    /\ Ready(c)
    /\ Invoke(c, "GetStatistics", "pointer", <<>>, NoParams,
           <<checkApiKey(odb)>>,
           statisticsEndpoint,
           Literal({}))

GetAliment(c) ==
    /\ Ready(c)
    /\ \E pib \in ArgValues, params \in ParamsOf(c) :
        Invoke(c, "GetAliment", "pointer", <<pib>>, params,
               <<checkApiKey(odb)>>,
               alimentEndpoint,
               Passed(params, << <<"pib", pib>> >>))

GetLawyers(c) ==
    /\ Ready(c)
    /\ \E params \in ParamsOf(c) :
        Invoke(c, "GetLawyers", "pointer", <<>>, params,
               <<checkApiKey(odb)>>,
               lawyersEndpoint,
               Passed(params, <<>>))

GetLawyerById(c) ==
    /\ Ready(c)
    /\ \E id \in IdValues :
        Invoke(c, "GetLawyerById", "pointer", <<id>>, NoParams,
               <<checkApiKey(odb)>>,
               Sprintf(lawyersByIdEndpoint, <<id>>),
               Literal({}))

GetCorruptOfficialsById(c) ==
    /\ Ready(c)
    /\ \E id \in IdValues :
        Invoke(c, "GetCorruptOfficialsById", "pointer", <<id>>, NoParams,
               <<checkApiKey(odb)>>,
               Sprintf(corruptOfficialsByIdEndpoint, <<id>>),
               Literal({}))

GetCorruptOfficials(c) ==
    /\ Ready(c)
    /\ \E pib \in ArgValues, params \in ParamsOf(c) :
        Invoke(c, "GetCorruptOfficials", "pointer", <<pib>>, params,
               <<checkApiKey(odb)>>,
               corruptOfficialsEndpoint,
               Passed(params, << <<"pib", pib>> >>))

GetPassport(c) ==
    /\ Ready(c)
    /\ \E number \in ArgValues :
        Invoke(c, "GetPassport", "pointer", <<number>>, NoParams,
               <<checkApiKey(odb)>>,
               passportEndpoint,
               Literal({<<"number", number>>}))

GetWanted(c) ==
    /\ Ready(c)
    /\ \E pib \in ArgValues, params \in ParamsOf(c) :
        Invoke(c, "GetWanted", "pointer", <<pib>>, params,
               <<checkApiKey(odb)>>,
               wantedEndpoint,
               Passed(params, << <<"pib", pib>> >>))

GetFullPenaltyByNumber(c) ==
    /\ Ready(c)
    /\ \E number \in IdValues, params \in ParamsOf(c) :
        Invoke(c, "GetFullPenaltyByNumber", "pointer", <<number>>, params,
               <<checkApiKey(odb)>>,
               Sprintf(fullPenaltyByNumberEndpoint, <<number>>),
               Passed(params, <<>>))

GetFullPenaltyDocByNumber(c) ==
    /\ Ready(c)
    /\ \E number \in IdValues, secret \in ArgValues :
        Invoke(c, "GetFullPenaltyDocByNumber", "pointer", <<number, secret>>, NoParams,
               <<checkApiKey(odb)>>,
               Sprintf(fullPenaltyDocByNumberEndpoint, <<number>>),
               Literal({<<"secret", secret>>}))

GetFullPenalty(c) ==
    /\ Ready(c)
    /\ \E params \in ParamsOf(c) :
        Invoke(c, "GetFullPenalty", "pointer", <<>>, params,
               <<checkApiKey(odb)>>,
               fullPenaltyEndpoint,
               Passed(params, <<>>))

GetPerformer(c) ==
    /\ Ready(c)
    /\ \E params \in ParamsOf(c) :
        Invoke(c, "GetPerformer", "pointer", <<>>, params,
               <<checkApiKey(odb)>>,
               performerEndpoint,
               Passed(params, <<>>))

GetPenaltiesByCode(c) ==
    /\ Ready(c)
    /\ \E code \in IdValues, params \in ParamsOf(c) :
        Invoke(c, "GetPenaltiesByCode", "pointer", <<code>>, params,
               <<checkApiKey(odb)>>,
               Sprintf(penaltiesByCodeEndpoint, <<code>>),
               Passed(params, <<>>))

GetPenaltyByNumber(c) ==
    /\ Ready(c)
    /\ \E number \in IdValues :
        Invoke(c, "GetPenaltyByNumber", "pointer", <<number>>, NoParams,
               <<checkApiKey(odb)>>,
               Sprintf(penaltyByNumberEndpoint, <<number>>),
               Literal({}))

GetPenalties(c) ==
    /\ Ready(c)
    /\ \E firstName \in ArgValues, lastName \in ArgValues, birthDate \in ArgValues, params \in ParamsOf(c) :
        Invoke(c, "GetPenalties", "pointer", <<firstName, lastName, birthDate>>, params,
               <<checkApiKey(odb)>>,
               penaltiesEndpoint,
               Passed(params, << <<"first_name", firstName>>, <<"last_name", lastName>>, <<"birth_date", birthDate>> >>))

GetKoatuuRegions(c) ==
    /\ Ready(c)
    /\ Invoke(c, "GetKoatuuRegions", "pointer", <<>>, NoParams,
           <<>>,
           koatuuRegionsEndpoint,
           Literal({}))

GetKoatuuRegionsByCode(c) ==
    /\ Ready(c)
    /\ \E code \in IdValues :
        Invoke(c, "GetKoatuuRegionsByCode", "pointer", <<code>>, NoParams,
               <<>>,
               Sprintf(koatuuRegionsByCodeEndpoint, <<code>>),
               Literal({}))

GetRealty(c) ==
    /\ Ready(c)
    /\ \E code \in ArgValues, params \in ParamsOf(c) :
        Invoke(c, "GetRealty", "pointer", <<code>>, params,
               <<checkApiKey(odb)>>,
               realtyEndpoint,
               Passed(params, << <<"code", code>> >>))

GetRealtyById(c) ==
    /\ Ready(c)
    /\ \E reportResultId \in IdValues, id \in IdValues :
        Invoke(c, "GetRealtyById", "pointer", <<reportResultId, id>>, NoParams,
               <<checkApiKey(odb)>>,
               Sprintf(realtyByIdEndpoint, <<reportResultId, id>>),
               Literal({}))

GetRealtyResult(c) ==
    /\ Ready(c)
    /\ \E resultId \in ArgValues :
        Invoke(c, "GetRealtyResult", "pointer", <<resultId>>, NoParams,
               <<checkApiKey(odb)>>,
               realtyResultEndpoint,
               Literal({<<"resultId", resultId>>}))

GetRealtyReportByNumber(c) ==
    /\ Ready(c)
    /\ \E number \in IdValues :
        Invoke(c, "GetRealtyReportByNumber", "pointer", <<number>>, NoParams,
               <<checkApiKey(odb)>>,
               Sprintf(realtyReportByNumberEndpoint, <<number>>),
               Literal({}))

GetTimeline(c) ==
    /\ Ready(c)
    /\ \E params \in ParamsOf(c) :
        Invoke(c, "GetTimeline", "pointer", <<>>, params,
               <<checkApiKey(odb)>>,
               timelineEndpoint,
               Passed(params, <<>>))

\* What http.Get can come back with for the call of c: anything, but for a
\* call made again the remote side answers as it did the first time.
Answers(c) ==
    IF first[c].kept
    THEN { got \in GetOutcomes : DoFinish(got, NilValue).resp = first[c].resp }
    ELSE GetOutcomes

\* HttpGetReturns as it would be if a call whose request failed asked again
\* once before giving up.
HttpGetReturnsRetrying(c) ==
    /\ c \in active
    /\ pc[c] = "inGet"
    /\ \E got \in Answers(c) :
        LET done == DoFinish(got, target[c])
        IN  IF done.err # Nil /\ httpCalls[c] < 2
            THEN /\ httpCalls' = [httpCalls EXCEPT ![c] = @ + 1]
                 /\ UNCHANGED << pc, resp, target, ret >>
            ELSE /\ resp' = [resp EXCEPT ![c] = done.resp]
                 /\ target' = [target EXCEPT ![c] = done.v]
                 /\ ret' = [ret EXCEPT ![c] = MethodReturn(done.err, done.v)]
                 /\ pc' = [pc EXCEPT ![c] = "returned"]
                 /\ UNCHANGED httpCalls
    /\ UNCHANGED << clientVars, call, pmap, request, first, resolve >>

\* HttpGetReturns as it would be if Do cleared the credential of the client
\* when a request came back with an error.
HttpGetReturnsForgetting(c) ==
    /\ c \in active
    /\ pc[c] = "inGet"
    /\ \E got \in Answers(c) :
        LET done == DoFinish(got, target[c])
        IN  /\ resp' = [resp EXCEPT ![c] = done.resp]
            /\ target' = [target EXCEPT ![c] = done.v]
            /\ ret' = [ret EXCEPT ![c] = MethodReturn(done.err, done.v)]
            /\ odb' = IF done.err # Nil
                      THEN [odb EXCEPT !.Settings.ApiKey = EmptyString]
                      ELSE odb
    /\ pc' = [pc EXCEPT ![c] = "returned"]
    /\ UNCHANGED << constructed, options, newErr, active, call, pmap, request,
                    httpCalls, first, resolve >>

\* http.Get returns to the call blocked in it; Do runs to its end and the
\* method returns.
GetReturns(c, outcomes) ==
    /\ c \in active
    /\ pc[c] = "inGet"
    /\ \E got \in outcomes :
        LET done == DoFinish(got, target[c])
        IN  /\ resp' = [resp EXCEPT ![c] = done.resp]
            /\ target' = [target EXCEPT ![c] = done.v]
            /\ ret' = [ret EXCEPT ![c] = MethodReturn(done.err, done.v)]
    /\ pc' = [pc EXCEPT ![c] = "returned"]
    /\ UNCHANGED << clientVars, call, pmap, request, httpCalls, first, resolve >>

HttpGetReturns(c) == GetReturns(c, Answers(c))

\* The caller is done with what the method returned and drops it, together
\* with the map it had passed.
Release(c) ==
    /\ c \in active
    /\ pc[c] = "returned"
    /\ \A d \in Callers \ {c} : ~(call[d].m.caller /\ call[d].m.obj = c)
    /\ pc' = [pc EXCEPT ![c] = "idle"]
    /\ call' = [call EXCEPT ![c] = NoCall]
    /\ pmap' = [pmap EXCEPT ![c] = NilMap]
    /\ request' = [request EXCEPT ![c] = NoRequest]
    /\ httpCalls' = [httpCalls EXCEPT ![c] = 0]
    /\ resp' = [resp EXCEPT ![c] = NoResp]
    /\ target' = [target EXCEPT ![c] = NilValue]
    /\ ret' = [ret EXCEPT ![c] = NoReturn]
    /\ first' = [first EXCEPT ![c] = NoFirst]
    /\ UNCHANGED << clientVars, resolve >>

\* What a caller can do: call a method, or take the next step of its call.
Step(c) ==
        \/ GetGovernmentCompany(c)
        \/ GetDpa(c)
        \/ GetCompany(c)
        \/ GetChanges(c)
        \/ GetWagedebt(c)
        \/ GetAudit(c)
        \/ GetAuditById(c)
        \/ GetRegistrations(c)
        \/ GetRegistrationById(c)
        \/ GetInspections(c)
        \/ GetInspectionById(c)
        \/ GetPdf(c)
        \/ GetPermits(c)
        \/ GetSingletax(c)
        \/ GetVat(c)
        \/ GetCourt(c)
        \/ GetInstitutions(c)
        \/ GetCourtById(c)
        \/ GetSchedule(c)
        \/ GetAccused(c)
        \/ GetScheduleById(c)
        \/ GetCompanyCourts(c)
        \/ GetCompanyCourtsByType(c)
        \/ GetCourtCases(c)
        \/ GetTransports(c)
        \/ GetTransportById(c)
        \/ GetTransportLicenses(c)
        \/ GetTransportLicensesById(c)
        \/ GetGenKey(c)
        \/ GetStatistics(c)
        \/ GetAliment(c)
        \/ GetLawyers(c)
        \/ GetLawyerById(c)
        \/ GetCorruptOfficialsById(c)
        \/ GetCorruptOfficials(c)
        \/ GetPassport(c)
        \/ GetWanted(c)
        \/ GetFullPenaltyByNumber(c)
        \/ GetFullPenaltyDocByNumber(c)
        \/ GetFullPenalty(c)
        \/ GetPerformer(c)
        \/ GetPenaltiesByCode(c)
        \/ GetPenaltyByNumber(c)
        \/ GetPenalties(c)
        \/ GetKoatuuRegions(c)
        \/ GetKoatuuRegionsByCode(c)
        \/ GetRealty(c)
        \/ GetRealtyById(c)
        \/ GetRealtyResult(c)
        \/ GetRealtyReportByNumber(c)
        \/ GetTimeline(c)
        \/ DoStart(c)
        \/ HttpGetReturns(c)
        \/ Release(c)

Next ==
    \/ Construct
    \/ \E c \in Callers : Step(c)

Spec == Init /\ [][Next]_vars

\* ------------------------------------------------- the same call again

\* The caller keeps what the call gave and makes the same call once more:
\* same method, same arguments, same params map object.
Repeat(c) ==
    /\ c \in active
    /\ pc[c] = "returned"
    /\ ~first[c].kept
    /\ first' = [first EXCEPT ![c] =
                   [kept |-> TRUE, request |-> request[c], resp |-> resp[c],
                    ret |-> ret[c]]]
    /\ pc' = [pc EXCEPT ![c] = "again"]
    /\ UNCHANGED << clientVars, call, pmap, request, httpCalls, resp, target,
                    ret, resolve >>

RepeatInit == Constructed({"c1"})

RepeatNext == \E c \in Callers : Step(c) \/ Repeat(c)

RepeatSpec == RepeatInit /\ [][RepeatNext]_vars

\* ------------------------------------------------- resolving on its own

\* Templates without a slot, with one and with two.
ResolveFormats == { statisticsEndpoint, dpaEndpoint, realtyByIdEndpoint }

\* Arguments for the slots: a plain one and one with a question mark.
ResolveArgs == { <<"7">>, <<"x", "?", "y">> }

\* ResolveStep as it would be if the resolver kept the URL it made last and
\* gave it again for the same template, whatever the arguments.
ResolveStepCached ==
    /\ ~constructed
    /\ \E format \in ResolveFormats, args \in SeqsUpTo(ResolveArgs, MaxArgs) :
        LET out == IF resolve.done /\ resolve.format = format
                   THEN resolve.out
                   ELSE Sprintf(format, args)
        IN  resolve' = [done |-> TRUE, format |-> format, args |-> args,
                        out |-> out,
                        built |-> buildQueryParams(out, MakeMap({}), << >>)]
    /\ UNCHANGED << clientVars, pc, call, pmap, request, httpCalls, resp,
                    target, ret, first >>

\* An endpoint is resolved as the methods resolve theirs, fmt.Sprintf on a
\* template and then buildQueryParams inside Do, but with any number of
\* arguments.
ResolveStep ==
    /\ ~constructed
    /\ \E format \in ResolveFormats, args \in SeqsUpTo(ResolveArgs, MaxArgs) :
        LET out == Sprintf(format, args)
        IN  resolve' = [done |-> TRUE, format |-> format, args |-> args,
                        out |-> out,
                        built |-> buildQueryParams(out, MakeMap({}), << >>)]
    /\ UNCHANGED << clientVars, pc, call, pmap, request, httpCalls, resp,
                    target, ret, first >>

\* Endpoints are resolved on their own, or the program runs.
ResolveNext ==
    \/ ResolveStep
    \/ (resolve = NoResolve /\ Next)

ResolveSpec == Init /\ [][ResolveNext]_vars

\* ------------------------------------------------------ several callers

\* Two calls that have passed their pre-checks are about to work on the same
\* map object with no synchronisation between them, and at least one of them
\* will write to it.  A call ranges over the map a caller passed in
\* buildQueryParams; before that it writes to it if the method has keys of
\* its own to set or the client has a credential.
Race(c, d) ==
    LET Touches(x) == pc[x] = "checked" /\ call[x].m.caller /\ ~Held(x).nil
        Writes(x)  == call[x].m.writes # << >>
                      \/ odb.Settings.ApiKey # EmptyString
    IN  /\ c # d
        /\ Touches(c) /\ Touches(d)
        /\ call[c].m.obj = call[d].m.obj
        /\ (Writes(c) \/ Writes(d))

\* A data race on a map may go unnoticed, and then the accesses take effect
\* in some order (DoStart); or the runtime detects it and ends the program
\* with "fatal error: concurrent map writes".
MapFault(c) ==
    /\ \E d \in active : Race(c, d)
    /\ pc' = [d \in Callers |-> "crashed"]
    /\ UNCHANGED << clientVars, call, pmap, request, httpCalls, resp, target,
                    ret, first, resolve >>

\* Two goroutines use one client, each calling GetAliment or GetInstitutions;
\* the remote side answers with the document or with a 404.
ConcInit == Constructed(Callers)

ConcOutcomes ==
    { got \in GetOutcomes :
        /\ got.err = Nil /\ ~got.readFails
        /\ \/ got.StatusCode = StatusOK /\ got.Body = BodyOk
           \/ got.StatusCode # StatusOK /\ StatusText(got.StatusCode) = "Not Found"
                /\ got.Body = BodyMalformed }

ConcNext ==
    \E c \in Callers :
        \/ GetAliment(c)
        \/ GetInstitutions(c)
        \/ DoStart(c)
        \/ MapFault(c)
        \/ GetReturns(c, ConcOutcomes)
        \/ Release(c)

ConcSpec == ConcInit /\ [][ConcNext]_vars

\* ------------------------------------------------- a transport of one's own

\* The state after c, _ := NewOdbClient(WithApiKey("K")) and
\* c.Settings.Client = &http.Client{...}: the program has placed a transport
\* of its own in the exported field of the configuration.
TransportInit ==
    /\ constructed = TRUE
    /\ options = <<WithApiKey(<<"K">>)>>
    /\ odb = [NewOdbClient(<<WithApiKey(<<"K">>)>>).client
                EXCEPT !.Settings.Client = "placed"]
    /\ newErr = Nil
    /\ active = {"c1"}
    /\ CallersIdle

TransportNext ==
    \E c \in Callers :
        \/ GetGovernmentCompany(c)
        \/ GetDpa(c)
        \/ GetInstitutions(c)
        \/ GetAliment(c)
        \/ DoStart(c)
        \/ HttpGetReturns(c)
        \/ Release(c)

TransportSpec == TransportInit /\ [][TransportNext]_vars

\* -------------------------------------------------------------- properties

\* The catalogue methods that call checkApiKey.
CredentialMethods ==
    {
      "GetGovernmentCompany", "GetDpa", "GetCompany", "GetChanges",
      "GetWagedebt", "GetAudit", "GetAuditById", "GetRegistrations",
      "GetRegistrationById", "GetInspections", "GetInspectionById", "GetPdf",
      "GetPermits", "GetSingletax", "GetVat", "GetCourt", "GetCourtById",
      "GetSchedule", "GetAccused", "GetScheduleById", "GetCompanyCourts",
      "GetCompanyCourtsByType", "GetCourtCases", "GetTransports",
      "GetTransportById", "GetTransportLicenses", "GetTransportLicensesById",
      "GetGenKey", "GetStatistics", "GetAliment", "GetLawyers",
      "GetLawyerById", "GetCorruptOfficialsById", "GetCorruptOfficials",
      "GetPassport", "GetWanted", "GetFullPenaltyByNumber",
      "GetFullPenaltyDocByNumber", "GetFullPenalty", "GetPerformer",
      "GetPenaltiesByCode", "GetPenaltyByNumber", "GetPenalties",
      "GetRealty", "GetRealtyById", "GetRealtyResult",
      "GetRealtyReportByNumber", "GetTimeline"
    }

\* The catalogue methods whose endpoint template has a slot.
SlotMethods ==
    {
      "GetDpa", "GetCompany", "GetChanges", "GetWagedebt", "GetAuditById",
      "GetRegistrationById", "GetInspectionById", "GetPdf", "GetCourtById",
      "GetScheduleById", "GetCompanyCourtsByType", "GetCourtCases",
      "GetTransportById", "GetTransportLicensesById", "GetLawyerById",
      "GetCorruptOfficialsById", "GetFullPenaltyByNumber",
      "GetFullPenaltyDocByNumber", "GetPenaltiesByCode",
      "GetPenaltyByNumber", "GetKoatuuRegionsByCode", "GetRealtyById",
      "GetRealtyReportByNumber"
    }

\* The arguments a call substitutes into the path: the leading argument of a
\* method with a slot, the two leading ones where the template has two.
IdentifierArgs(cl) ==
    IF cl.method = "GetRealtyById" THEN { cl.args[1], cl.args[2] }
    ELSE IF cl.method \in SlotMethods THEN { cl.args[1] }
    ELSE {}

\* An identifier is blank when it has nothing but spaces.
Blank(id) == \A i \in 1..Len(id) : id[i] = " "

IdError == ErrorsNew("Id is not specified")

KeyError == ErrorsNew("ApiKey is not specified")

\* How the receiver of a URL reads its query: the text between the first ?
\* and the first #, cut at every &, each piece cut at its first =, both
\* halves unescaped.
QueryUnescapeToken(t) ==
    CASE t = "+"   -> " "
      [] t = "%26" -> "&"
      [] t = "%3D" -> "="
      [] t = "%25" -> "%"
      [] t = "%3F" -> "?"
      [] t = "%23" -> "#"
      [] t = "%2F" -> "/"
      [] t = "%2B" -> "+"
      [] OTHER     -> t

QueryUnescape(s) == [i \in 1..Len(s) |-> QueryUnescapeToken(s[i])]

RawQueryOf(url) ==
    LET hashAt == IndexOf(url, "#")
        u      == IF hashAt = 0 THEN url ELSE SubSeq(url, 1, hashAt - 1)
        qAt    == IndexOf(u, "?")
    IN  IF qAt = 0 THEN << >> ELSE SubSeq(u, qAt + 1, Len(u))

RECURSIVE SplitAmp(_)
SplitAmp(q) ==
    LET at == IndexOf(q, "&")
    IN  IF at = 0 THEN <<q>>
        ELSE <<SubSeq(q, 1, at - 1)>> \o SplitAmp(SubSeq(q, at + 1, Len(q)))

PairOf(piece) ==
    LET at == IndexOf(piece, "=")
    IN  IF at = 0 THEN <<QueryUnescape(piece), << >> >>
        ELSE << QueryUnescape(SubSeq(piece, 1, at - 1)),
                QueryUnescape(SubSeq(piece, at + 1, Len(piece))) >>

\* The parameters of the query of url, in the order in which they stand.
QueryPairs(url) ==
    LET pieces == SelectSeq(SplitAmp(RawQueryOf(url)), LAMBDA x : x # << >>)
    IN  [i \in 1..Len(pieces) |-> PairOf(pieces[i])]

\* The values the query of url gives for the parameter named key.
QueryValues(url, key) ==
    LET pairs == QueryPairs(url)
        mine  == SelectSeq(pairs, LAMBDA pr : pr[1] = <<key>>)
    IN  [i \in 1..Len(mine) |-> mine[i][2]]

\* The methods of claim C3, each of which checks its leading argument.
CheckedIdMethods ==
    { "GetGovernmentCompany", "GetDpa", "GetCompany", "GetChanges",
      "GetWagedebt", "GetAuditById", "GetRegistrationById", "GetInspections",
      "GetInspectionById", "GetPdf" }

\* C1: on a client whose credential is empty, a call of a method that makes
\* the credential pre-check ends returned with a validation error and a nil
\* result, and has handed no request to http.Get.
C1_NoRequestWithoutCredential ==
    \A c \in Callers :
        (pc[c] # "idle" /\ call[c].method \in CredentialMethods
         /\ odb.Settings.ApiKey = EmptyString)
        => /\ pc[c] = "returned"
           /\ ret[c].err \in {KeyError, IdError}
           /\ ret[c].response = NilValue
           /\ httpCalls[c] = 0
           /\ ~request[c].issued

C1_Witness ==
    \E c \in Callers :
        /\ pc[c] = "returned"
        /\ call[c].method = "GetAliment"
        /\ call[c].params = NilMap
        /\ odb.Settings.ApiKey = EmptyString
        /\ ret[c].err = KeyError
        /\ httpCalls[c] = 0

\* C2: a call of a method whose template has a slot hands no request to
\* http.Get when an identifier it substitutes is empty or blank.
C2_NoRequestWithEmptyIdentifier ==
    \A c \in Callers :
        (\E id \in IdentifierArgs(call[c]) : Blank(id))
        => (httpCalls[c] = 0 /\ ~request[c].issued)

\* C3: a call of one of the identifier-checked methods with the empty string
\* as identifier ends returned with the identifier error and a nil result and
\* has handed no request to http.Get, with or without a credential.
C3_EmptyIdIsValidationError ==
    \A c \in Callers :
        (pc[c] # "idle" /\ call[c].method \in CheckedIdMethods
         /\ call[c].args[1] = EmptyString)
        => /\ pc[c] = "returned"
           /\ ret[c].err = IdError
           /\ ret[c].response = NilValue
           /\ httpCalls[c] = 0
           /\ ~request[c].issued

C3_Witness ==
    \E c \in Callers :
        /\ pc[c] = "returned"
        /\ call[c].method = "GetGovernmentCompany"
        /\ call[c].args[1] = EmptyString
        /\ odb.Settings.ApiKey # EmptyString
        /\ ret[c].err = IdError

\* C4: NewOdbClient returns a nil error and a client with settings for every
\* option sequence, and the credential is empty when the sequence is.
C4_BuildNeverFails ==
    constructed =>
        /\ newErr = Nil
        /\ ~odb.nil
        /\ (options = << >> => odb.Settings.ApiKey = EmptyString)

C4_Witness ==
    /\ constructed
    /\ options = << >>
    /\ newErr = Nil
    /\ odb.Settings.ApiKey = EmptyString

\* C5: the credential of the client is the value of the last WithApiKey
\* option of the sequence it was built from, and empty when there is none.
C5_LastOptionWins ==
    constructed =>
        odb.Settings.ApiKey =
            IF options = << >> THEN EmptyString
            ELSE options[Len(options)].value

C5_Witness ==
    /\ constructed
    /\ options = << WithApiKey(<<"K">>), WithApiKey(EmptyString) >>
    /\ odb.Settings.ApiKey = EmptyString

\* C6: with a credential configured, the query of every URL handed to
\* http.Get has the key apiKey exactly once, with the credential as value,
\* also when the caller's map came with an apiKey of its own.
C6_ApiKeyExactlyOnce ==
    \A c \in Callers :
        (request[c].issued /\ odb.Settings.ApiKey # EmptyString)
        => QueryValues(request[c].url, "apiKey") = << odb.Settings.ApiKey >>

C6_Witness ==
    \E c \in Callers :
        /\ request[c].issued
        /\ odb.Settings.ApiKey = <<"K">>
        /\ call[c].hasParams
        /\ <<"apiKey", <<"J">> >> \in call[c].params.kv
        /\ QueryValues(request[c].url, "apiKey") = << <<"K">> >>

\* C7: with a credential configured, every request of every method carries
\* the parameter apiKey with the credential, the methods that make no
\* credential pre-check included.
C7_EveryRequestAuthenticated ==
    \A c \in Callers :
        (request[c].issued /\ odb.Settings.ApiKey # EmptyString)
        => \E i \in DOMAIN QueryPairs(request[c].url) :
              QueryPairs(request[c].url)[i] = << <<"apiKey">>, odb.Settings.ApiKey >>

C7_Witness ==
    \E c \in Callers :
        /\ request[c].issued
        /\ call[c].method = "GetKoatuuRegions"
        /\ odb.Settings.ApiKey = <<"K">>
        /\ QueryPairs(request[c].url) = << << <<"apiKey">>, <<"K">> >> >>

\* C8: when the status of the response is not 200, the call returns an
\* error, the body has not been read and the result variable is as it was.
C8_Non200IsErrorBodyUnread ==
    \A c \in Callers :
        (resp[c].present /\ resp[c].StatusCode # 200)
        => /\ pc[c] = "returned"
           /\ ret[c].err # Nil
           /\ ret[c].response = NilValue
           /\ ~resp[c].read
           /\ target[c] = NilValue

C8_Witness ==
    \E c \in Callers :
        /\ pc[c] = "returned"
        /\ resp[c].present
        /\ resp[c].StatusCode = 201
        /\ resp[c].Body = BodyOk
        /\ ret[c].err = ErrorsNew("Created")
        /\ ~resp[c].read

\* C9: the error returned for a response whose status is not 200 identifies
\* that status: for 404 it names 404, and it differs from the error Do
\* returns for any response with another status that is not 200.
C9_ErrorIdentifiesStatus ==
    \A c \in Callers :
        (pc[c] = "returned" /\ resp[c].present /\ resp[c].StatusCode # 200)
        => /\ (resp[c].StatusCode = 404 => ret[c].err.msg = "Not Found")
           /\ \A got \in GetOutcomes :
                 (got.err = Nil /\ got.StatusCode \notin {200, resp[c].StatusCode})
                 => DoFinish(got, NilValue).err # ret[c].err

\* C10: a call invokes http.Get at most once, whatever comes back: the
\* count stands at one while the call waits and is not raised afterwards.
C10_AtMostOneRequest ==
    \A c \in Callers :
        /\ httpCalls[c] <= 1
        /\ (pc[c] = "inGet" => httpCalls[c] = 1)
        /\ (pc[c] = "returned" /\ resp[c].present => httpCalls[c] = 1)

C10_Witness ==
    \E c \in Callers :
        /\ pc[c] = "returned"
        /\ request[c].issued
        /\ ~resp[c].present
        /\ ret[c].err.type = "url.Error"
        /\ httpCalls[c] = 1

\* The call received a 200 whose body was read and handed to json.Unmarshal.
Decoded(c) ==
    /\ pc[c] = "returned"
    /\ resp[c].present
    /\ resp[c].StatusCode = StatusOK
    /\ resp[c].read

DecodeErrors == {"json.SyntaxError", "json.UnmarshalTypeError"}

\* C11: when the body of a 200 response is not well-formed for the target
\* type (text that is not JSON, or a member of the wrong JSON type), the
\* method returns the decode error and a nil result, even where the decoder
\* had already stored part of the document in the result variable.
C11_DecodeErrorGivesNilResult ==
    \A c \in Callers :
        (Decoded(c) /\ resp[c].Body \in {BodyMalformed, BodyMismatch})
            => /\ ret[c].err.type \in DecodeErrors
               /\ ret[c].response = NilValue

\* A type mismatch after which the result variable holds the members that
\* did decode, while the caller got nil and the error.
C11_Witness ==
    \E c \in Callers :
        /\ Decoded(c)
        /\ resp[c].Body = BodyMismatch
        /\ ~target[c].nil
        /\ target[c].Status = <<"ok">>
        /\ ret[c].response = NilValue
        /\ ret[c].err.type = "json.UnmarshalTypeError"

\* C12: a well-formed 200 body decodes without error when it has a member
\* the target type does not declare, which is ignored, and when it lacks
\* members the type declares, whose fields are left at their zero values.
C12_UnknownAndMissingFieldsDecode ==
    \A c \in Callers :
        /\ (Decoded(c) /\ resp[c].Body = BodyUnknown)
            => /\ ret[c].err = Nil
               /\ ret[c].response = Unmarshal(BodyOk, NilValue).v
        /\ (Decoded(c) /\ resp[c].Body = BodyMissing)
            => /\ ret[c].err = Nil
               /\ ~ret[c].response.nil
               /\ ret[c].response.Status = EmptyString
               /\ ret[c].response.Count = 1
               /\ ret[c].response.Items = << >>

\* A caller holds the result of a document that lacks the status and the
\* items.
C12_Witness ==
    \E c \in Callers :
        /\ Decoded(c)
        /\ resp[c].Body = BodyMissing
        /\ ~ret[c].response.nil
        /\ ret[c].response.Status = EmptyString
        /\ ret[c].response.Count = 1

\* C13: with a credential and a non-empty code, a 200 whose body is
\* {"status":"ok","data":{"count":1,"items":[{"code":"31325005"}]}} makes
\* GetGovernmentCompany return a nil error and a non-nil result with
\* Data.Count = 1 and Data.Items[0].Code = "31325005".
C13_GovernmentCompanyDecoded ==
    \A c \in Callers :
        ( /\ Decoded(c)
          /\ call[c].method = "GetGovernmentCompany"
          /\ resp[c].Body = BodyOk )
            => /\ odb.Settings.ApiKey # EmptyString
               /\ call[c].args[1] # EmptyString
               /\ ret[c].err = Nil
               /\ ~ret[c].response.nil
               /\ ret[c].response.Count = 1
               /\ Len(ret[c].response.Items) = 1
               /\ ret[c].response.Items[1].Code = <<"31325005">>

C13_Witness ==
    \E c \in Callers :
        /\ Decoded(c)
        /\ call[c].method = "GetGovernmentCompany"
        /\ resp[c].Body = BodyOk
        /\ ret[c].err = Nil
        /\ ret[c].response.Status = <<"ok">>

\* The part of url before its query.
BeforeQuery(url) ==
    LET qAt == IndexOf(url, "?")
    IN  IF qAt = 0 THEN url ELSE SubSeq(url, 1, qAt - 1)

\* C14: GetGovernmentCompany("31325005") on a client with the credential
\* "K" requests the government-companies endpoint with a query that has
\* code=31325005 and apiKey=K and no other parameter; scheme, host and path
\* are those of the endpoint.
C14_CodeAndApiKeyEncoded ==
    \A c \in Callers :
        ( /\ request[c].issued
          /\ call[c].method = "GetGovernmentCompany"
          /\ call[c].args = << <<"31325005">> >>
          /\ odb.Settings.ApiKey = <<"K">> )
            => LET pairs == QueryPairs(request[c].url)
               IN  /\ Len(pairs) = 2
                   /\ { pairs[i] : i \in 1..Len(pairs) }
                        = { << <<"code">>, <<"31325005">> >>,
                            << <<"apiKey">>, <<"K">> >> }
                   /\ BeforeQuery(request[c].url) = governmentCompaniesEndpoint

C14_Witness ==
    \E c \in Callers :
        /\ request[c].issued
        /\ call[c].method = "GetGovernmentCompany"
        /\ call[c].args = << <<"31325005">> >>
        /\ odb.Settings.ApiKey = <<"K">>
        /\ QueryValues(request[c].url, "code") = << <<"31325005">> >>

\* C15: the encoder drops no parameter: every key of the map handed to
\* buildQueryParams stands in the query of the request exactly once, with
\* its value, and a key whose value is the empty string is sent as "key=".
C15_EveryKeyEncodedOnce ==
    \A c \in Callers :
        request[c].issued
            => \A e \in Held(c).kv :
                   QueryValues(request[c].url, e[1]) = << e[2] >>

\* A request of a client without a credential whose params map gives name
\* the empty string: the query has name with the empty value.
C15_Witness ==
    \E c \in Callers :
        /\ request[c].issued
        /\ odb.Settings.ApiKey = EmptyString
        /\ call[c].hasParams
        /\ <<"name", EmptyString>> \in Held(c).kv
        /\ QueryValues(request[c].url, "name") = << EmptyString >>

\* The number of %s slots of a template.
SlotCount(format) == Cardinality({ i \in 1..Len(format) : format[i] = Slot })

\* The text fmt.Sprintf writes where an argument is missing or left over.
Markers == {"%!s(MISSING)", "%!(EXTRA string="}

HasMarker(s) == \E i \in 1..Len(s) : s[i] \in Markers

C17_SameCallSameOutcome ==
    \A c \in Callers :
        first[c].kept =>
            /\ pc[c] \in {"inGet", "returned"}
                => request[c] = first[c].request
            /\ (pc[c] = "returned" /\ resp[c] = first[c].resp)
                => ret[c] = first[c].ret

\* GetAliment called a second time with the map that already holds the
\* apiKey and the pib the first call wrote, answered with a result again.
C17_Witness ==
    \E c \in Callers :
        /\ first[c].kept
        /\ pc[c] = "returned"
        /\ call[c].method = "GetAliment"
        /\ <<"apiKey", <<"K">> >> \in call[c].params.kv
        /\ \E e \in call[c].params.kv : e[1] = "pib"
        /\ request[c].issued
        /\ resp[c] = first[c].resp
        /\ ret[c].err = Nil
        /\ ~ret[c].response.nil

\* C18: once NewOdbClient has returned the client, no step of any call
\* changes it: Settings.ApiKey and Settings.Client stay what the options
\* made them.
C18_SettingsNeverChange == [][constructed => odb' = odb]_vars

\* A call has come back with an error on a client that still has its
\* credential and its (nil) Client.
C18_Witness ==
    \E c \in Callers :
        /\ pc[c] = "returned"
        /\ request[c].issued
        /\ ret[c].err # Nil
        /\ odb.Settings = [ApiKey |-> <<"K">>, Client |-> "nil"]

\* C19 as the specification states it: the calls of concurrent callers share
\* nothing but the configuration; in no reachable state are two calls about
\* to access the same mutable object with one of them writing it.
C19_NoSharedMutableAccess ==
    \A c \in Callers, d \in Callers : ~Race(c, d)

\* C20: every request a catalogue method issues is a GET whose URL starts
\* with https://opendatabot.com/api/v2/, whatever identifiers and parameters
\* the caller passes.
C20_GetOnFixedBase ==
    \A c \in Callers :
        request[c].issued =>
            /\ request[c].method = "GET"
            /\ Len(request[c].url) > 2
            /\ request[c].url[1] = Origin
            /\ request[c].url[2] = ApiPrefix

\* A request for an identifier that brings dot segments, a query and a
\* fragment of its own.
C20_Witness ==
    \E c \in Callers :
        /\ request[c].issued
        /\ call[c].method \in SlotMethods
        /\ call[c].args[1] = Hostile
        /\ request[c].url[1] = Origin

\* C21: every request that any method issues has a parameter apiKey in its
\* query, whatever the configuration of the client: also a client built
\* without a credential calling GetInstitutions, GetKoatuuRegions or
\* GetKoatuuRegionsByCode.
C21_ApiKeyOnEveryRequest ==
    \A c \in Callers :
        request[c].issued => QueryValues(request[c].url, "apiKey") # << >>

\* The steps of a returned call that failed, read off what the call was given
\* and what came back, not off what it returned: a pre-check, the parse of
\* the URL, the transport, the status check, the read of the body, the
\* decoding.
PreCheckFailed(c) ==
    \/ call[c].method \in CheckedIdMethods /\ call[c].args[1] = EmptyString
    \/ call[c].method \in CredentialMethods /\ odb.Settings.ApiKey = EmptyString

ParseFailed(c) == UrlParse(call[c].endpoint).err # Nil

TransportFailed(c) == request[c].issued /\ ~resp[c].present

StatusFailed(c) == resp[c].present /\ resp[c].StatusCode # StatusOK

ReadFailed(c) ==
    resp[c].present /\ resp[c].StatusCode = StatusOK /\ ~resp[c].read

DecodeFailed(c) ==
    resp[c].read /\ resp[c].Body \in {BodyMalformed, BodyMismatch}

StepFailed(c) ==
    \/ PreCheckFailed(c)
    \/ ParseFailed(c)
    \/ TransportFailed(c)
    \/ StatusFailed(c)
    \/ ReadFailed(c)
    \/ DecodeFailed(c)

\* C22: a method that has returned has returned an error exactly when a
\* pre-check, the URL parse, the transport, the status check, the read or
\* the decoding failed, and the result is nil whenever the error is not.
C22_ErrorIffAStepFailed ==
    \A c \in Callers :
        pc[c] = "returned"
        => /\ (ret[c].err # Nil) <=> StepFailed(c)
           /\ ret[c].err # Nil => ret[c].response = NilValue

\* Every kind of failure has been returned as an error by some call: here the
\* read of the body of a 200 response failed.
C22_Witness ==
    \E c \in Callers :
        /\ pc[c] = "returned"
        /\ ReadFailed(c)
        /\ ret[c].err.type = "io.Error"
        /\ ret[c].response = NilValue

\* The map Do hands to buildQueryParams for the call of c.
SentParams(c) == DoParams(odb, WriteAll(Held(c), call[c].m.writes))

\* C23: the URL that Do hands to http.Get is the one buildQueryParams gives
\* for the call's endpoint and entries in every order in which the range
\* statement can visit the entries: the order has no effect on the URL.
C23_UrlIndependentOfOrder ==
    \A c \in Callers :
        pc[c] = "inGet"
        => \A order \in Orders(MapKeys(SentParams(c))) :
              buildQueryParams(call[c].endpoint, SentParams(c), order).uri
                  = request[c].url

\* A request whose map had three entries or more, which the range statement
\* can visit in six orders or more.
C23_Witness ==
    \E c \in Callers :
        /\ pc[c] = "inGet"
        /\ Cardinality(MapKeys(SentParams(c))) >= 3
        /\ Len(QueryPairs(request[c].url)) >= 3

C25_CallerMapUnchanged ==
    \A c \in Callers :
        (pc[c] = "returned" /\ call[c].hasParams)
        => pmap[call[c].m.obj] = call[c].params

\* C26: a call whose caller passed a nil map for params never panics.
C26_NilMapNeverPanics ==
    \A c \in Callers :
        (call[c].hasParams /\ call[c].params.nil) => pc[c] # "panicked"

\* C27: every request goes out through the client held in Settings.Client,
\* so that a transport the program has placed there sees every request.
C27_RequestsThroughSettingsClient ==
    \A c \in Callers :
        request[c].issued => request[c].client = odb.Settings.Client

\* C28: when a call has returned, the body of the response it got from
\* http.Get has been closed, whichever way Do returned.
C28_BodyClosedOnReturn ==
    \A c \in Callers :
        (pc[c] = "returned" /\ resp[c].present) => resp[c].closed

\* C29: in a method that makes both pre-checks the identifier is checked
\* first and the credential second, and both before the endpoint is resolved
\* and Do is called: with an empty identifier the call returns "Id is not
\* specified" whatever the credential, with an identifier and an empty
\* credential it returns "ApiKey is not specified", and in both cases no
\* request has been issued.
C29_IdCheckedBeforeCredential ==
    \A c \in Callers :
        (pc[c] # "idle" /\ call[c].method \in CheckedIdMethods)
        => /\ call[c].args[1] = EmptyString
              => /\ pc[c] = "returned"
                 /\ ret[c].err = IdError
                 /\ ~request[c].issued
           /\ (call[c].args[1] # EmptyString
               /\ odb.Settings.ApiKey = EmptyString)
              => /\ pc[c] = "returned"
                 /\ ret[c].err = KeyError
                 /\ ~request[c].issued

\* A call with neither identifier nor credential has returned the error of
\* the identifier check.
C29_Witness ==
    \E c \in Callers :
        /\ pc[c] = "returned"
        /\ call[c].method = "GetDpa"
        /\ call[c].args = <<EmptyString>>
        /\ odb.Settings.ApiKey = EmptyString
        /\ ret[c].err = IdError

\* C30: a method that has returned a nil error has returned a result that is
\* not nil, whatever the body of the 200 response was.
C30_NilErrorGivesResult ==
    \A c \in Callers :
        (pc[c] = "returned" /\ ret[c].err = Nil) => ~ret[c].response.nil

====
